---------------------------- MODULE Spec2Model ----------------------------
(***************************************************************************)
(* scripts/generate-icons.py as a state machine.                           *)
(*                                                                         *)
(* The script is one straight line of statements, so the program counter   *)
(* pc is the source line of the statement that runs next.  The state is    *)
(* the environment the script acts on (whether Pillow can be imported, the *)
(* directories and files below the repository root, the console), the      *)
(* locals of create_icon, and the exit status.  The operating system and   *)
(* the package installer are nondeterministic: an install may or may not   *)
(* make Pillow importable, a mkdir or a file write may fail.               *)
(***************************************************************************)
EXTENDS Integers, Sequences, FiniteSets, TLC

VARIABLES
    pc,          \* source line of the next statement
    exitStatus,  \* <<>> while the script runs, <<0>> or <<1>> once it ended
    PIL,         \* TRUE iff "from PIL import Image, ImageDraw" would succeed
    dirs,        \* the directories that exist (paths below the script's dir)
    files,       \* the files that exist: path -> contents
    stdout,      \* the lines printed by this run, in order
    ret,         \* create_icon's return address (a line of main)
    size,        \* create_icon's parameter
    filepath,    \* create_icon's parameter
    img,         \* create_icon's local: <<>> or [id, raster]
    nextId,      \* identity of the next buffer Image.new allocates
    log,         \* history: the library and system calls this run made
    run,         \* history: which invocation of the script this is
    dirs0,       \* history: dirs when this run started
    files0,      \* history: files when this run started
    snapshot     \* history: <<>> or <<files>> at the end of the last successful run

vars == <<pc, exitStatus, PIL, dirs, files, stdout, ret, size, filepath, img,
          nextId, log, run, dirs0, files0, snapshot>>

\* How many times the script is invoked in one behaviour.
MaxRuns == 2

----------------------------------------------------------------------------
(* Literals of the source *)

\* Image.new's colour argument, zinc-950.
BackgroundColor == <<9, 9, 11, 255>>

\* draw.ellipse's fill argument, amber-500.
FillColor == <<245, 158, 11, 255>>

\* Python's None, where a colour is expected.
None == <<>>

\* os.path.join(a, b) for relative b: one more path component.
os_path_join(a, b) == Append(a, b)

\* icons_dir, relative to os.path.dirname(__file__).
icons_dir == os_path_join(os_path_join(<<"..">>, "src-tauri"), "icons")

\* The calls with the "@2x" file drawn at its nominal 128 pixels.
CallSitesNominal2x ==
    (35 :> [size |-> 32,  name |-> "32x32.png"]) @@
    (36 :> [size |-> 128, name |-> "128x128.png"]) @@
    (37 :> [size |-> 128, name |-> "128x128@2x.png"]) @@
    (38 :> [size |-> 256, name |-> "icon.png"])

\* The calls with the first two in the other order.
CallSitesSwapped ==
    (35 :> [size |-> 128, name |-> "128x128.png"]) @@
    (36 :> [size |-> 32,  name |-> "32x32.png"]) @@
    (37 :> [size |-> 256, name |-> "128x128@2x.png"]) @@
    (38 :> [size |-> 256, name |-> "icon.png"])

\* The four create_icon calls of main, by source line.
CallSites ==
    (35 :> [size |-> 32,  name |-> "32x32.png"]) @@
    (36 :> [size |-> 128, name |-> "128x128.png"]) @@
    (37 :> [size |-> 256, name |-> "128x128@2x.png"]) @@
    (38 :> [size |-> 256, name |-> "icon.png"])

CallLines == DOMAIN CallSites

PathAt(line) == os_path_join(icons_dir, CallSites[line].name)

Paths == {PathAt(l) : l \in CallLines}

\* The statement that follows a statement of main in source order.
NextInMain(line) ==
    CASE line = 32 -> 35
      [] line = 35 -> 36
      [] line = 36 -> 37
      [] line = 37 -> 38
      [] line = 38 -> 40
      [] line = 40 -> 41

\* create_icon without its img.save statement.
NextSkippingSave(line) ==
    CASE line = 17 -> 22
      [] line = 22 -> 28

\* The statement that follows a statement of create_icon in source order.
NextInCreateIcon(line) ==
    CASE line = 17 -> 22
      [] line = 22 -> 27
      [] line = 27 -> 28

\* os.makedirs called without exist_ok.
ExistOkFalse == FALSE

\* exist_ok of the os.makedirs call.
ExistOk == TRUE

\* The lines the script prints.
InstallingLine == <<"PIL (Pillow) not found. Installing...">>
CreatedLine(path) == <<"Created", path>>
CompleteLine == <<"Icon generation complete!">>
AdvisoryLine ==
    <<"Note: icon.icns and icon.ico are placeholders. Use proper icon generation for production.">>

----------------------------------------------------------------------------
(* Pillow: rasters as a background colour and the shapes drawn on it *)

\* Image.new(mode, size, color)
Image_new(mode, wh, color) ==
    [mode |-> mode, size |-> wh, color |-> color, shapes |-> <<>>]

\* ImageDraw.ellipse(xy, fill, outline) on the raster im.
ImageDraw_ellipse(im, xy, fill, outline) ==
    [im EXCEPT !.shapes = Append(@, [xy |-> xy, fill |-> fill, outline |-> outline])]

\* Pixel (x, y) lies in the ellipse inscribed in the box xy = [x0, y0, x1, y1].
\* With w = x1 - x0 and h = y1 - y0 the ellipse is
\*   ((x - cx) / (w/2))^2 + ((y - cy) / (h/2))^2 <= 1,   cx = (x0 + x1)/2,
\* stated in integers with dx = 2(x - cx), dy = 2(y - cy):
\*   dx^2 * h^2 + dy^2 * w^2 <= w^2 * h^2.
\* Pillow's rasteriser may round the pixels on the rim differently; the rim is
\* never read below, only the centre of the box and points outside the box.
InEllipse(xy, x, y) ==
    LET w  == xy[3] - xy[1]
        h  == xy[4] - xy[2]
        dx == 2 * x - (xy[1] + xy[3])
        dy == 2 * y - (xy[2] + xy[4])
    IN  /\ xy[1] <= x /\ x <= xy[3]
        /\ xy[2] <= y /\ y <= xy[4]
        /\ w >= 0 /\ h >= 0
        /\ dx * dx * h * h + dy * dy * w * w <= w * w * h * h

\* The box one pixel inside xy: what an outline of width 1 leaves untouched.
Shrink(xy) == <<xy[1] + 1, xy[2] + 1, xy[3] - 1, xy[4] - 1>>

\* The colour a shape gives pixel (x, y), or None where it leaves the pixel.
ShapeColor(s, x, y) ==
    IF ~InEllipse(s.xy, x, y) THEN None
    ELSE IF s.outline # None /\ ~InEllipse(Shrink(s.xy), x, y) THEN s.outline
    ELSE s.fill

\* Image.getpixel((x, y)): the last shape that painted the pixel, else the
\* colour the raster was created with.
RECURSIVE PixelAfter(_, _, _, _)
PixelAfter(im, n, x, y) ==
    IF n = 0 THEN im.color
    ELSE IF ShapeColor(im.shapes[n], x, y) # None
         THEN ShapeColor(im.shapes[n], x, y)
         ELSE PixelAfter(im, n - 1, x, y)

getpixel(im, x, y) == PixelAfter(im, Len(im.shapes), x, y)

\* Number of bands of a mode.
Bands(mode) == IF mode = "RGBA" THEN 4 ELSE IF mode = "RGB" THEN 3 ELSE 1

\* An encoder that stamps the file with the time of the run.
PngTimestamped(im) ==
    [format |-> "PNG", mode |-> im.mode, size |-> im.size,
     color |-> im.color, shapes |-> im.shapes, tIME |-> <<run>>]

\* img.save(filepath, 'PNG'): PNG is lossless and keeps the alpha channel; the
\* file holds the dimensions, the bands and the pixels, and nothing of the
\* buffer's identity, of the clock or of the run.
PngEncode(im) ==
    [format |-> "PNG", mode |-> im.mode, size |-> im.size,
     color |-> im.color, shapes |-> im.shapes, tIME |-> None]

\* Image.open(path): the raster a PNG file decodes to.
PngDecode(f) ==
    [mode |-> f.mode, size |-> f.size, color |-> f.color, shapes |-> f.shapes]

\* A file that some earlier tool left at an icon path: a PNG of another design.
StalePng ==
    [format |-> "PNG", mode |-> "RGBA", size |-> <<16, 16>>,
     color |-> <<0, 0, 0, 0>>, shapes |-> <<>>, tIME |-> None]

\* What a write that failed half way leaves behind.
Truncated ==
    [format |-> "truncated", mode |-> "", size |-> <<0, 0>>,
     color |-> None, shapes |-> <<>>, tIME |-> None]

----------------------------------------------------------------------------
(* create_icon's drawing, lines 17-25 *)

\* margin = size // 4
Margin(s) == s \div 4

\* The bounding box passed to draw.ellipse.
EllipseBox(s) == <<Margin(s), Margin(s), s - Margin(s), s - Margin(s)>>

\* A buffer created with a transparent background.
NewImageTransparent(s) == Image_new("RGBA", <<s, s>>, <<9, 9, 11, 0>>)

\* Line 17: Image.new('RGBA', (size, size), (9, 9, 11, 255))
NewImage(s) == Image_new("RGBA", <<s, s>>, BackgroundColor)

\* The ellipse drawn as an outline, with no fill.
DrawOutlineOnly(im, s) == ImageDraw_ellipse(im, EllipseBox(s), None, FillColor)

\* Lines 22-25: draw.ellipse([margin, margin, size - margin, size - margin], fill=...)
DrawEllipse(im, s) == ImageDraw_ellipse(im, EllipseBox(s), FillColor, None)

----------------------------------------------------------------------------
(* The file system *)

ParentDir == os_path_join(<<"..">>, "src-tauri")

\* The directories os.makedirs(icons_dir) has to find or make, outermost first.
DirChain == <<ParentDir, icons_dir>>

AllDirs == {DirChain[i] : i \in DOMAIN DirChain}

\* The first n directories of the chain.
ChainPrefix(n) == {DirChain[i] : i \in 1..n}

\* os.makedirs(icons_dir, exist_ok): the outcomes [ok, dirs] from directory
\* state d.  Missing directories are made outermost first; any mkdir may fail
\* (permissions, a full disk), leaving what was made before it.  A leaf that
\* already exists raises FileExistsError unless exist_ok.
os_makedirs(d, exist_ok) ==
    IF icons_dir \in d
    THEN {[ok |-> exist_ok, dirs |-> d]}
    ELSE {[ok |-> TRUE, dirs |-> d \cup AllDirs]} \cup
         {[ok |-> FALSE, dirs |-> d \cup ChainPrefix(n - 1)] :
              n \in {i \in DOMAIN DirChain : DirChain[i] \notin d}}

\* f with path p holding contents c.
WriteFile(f, p, c) == (p :> c) @@ f

\* f without path p.
RemoveFile(f, p) == [q \in (DOMAIN f) \ {p} |-> f[q]]

\* What a failed img.save can leave: the file system untouched (the open
\* failed), the file gone or cut short (the write failed after the open).
FailedSaveOutcomes(f, p) ==
    IF icons_dir \notin dirs THEN {f}
    ELSE {f, RemoveFile(f, p), WriteFile(f, p, Truncated)}

----------------------------------------------------------------------------
(* History *)

Event(op, path, buf, s, ok) ==
    [op |-> op, path |-> path, buf |-> buf, size |-> s, ok |-> ok]

Logged(e) == log' = Append(log, e)

Running == exitStatus = <<>>

\* An unhandled exception: the interpreter prints a traceback and exits 1,
\* leaving pc at the statement that raised.
Raise == /\ exitStatus' = <<1>>
         /\ pc' = pc

Locals == <<ret, size, filepath, img>>
History == <<run, dirs0, files0, snapshot>>

----------------------------------------------------------------------------
(* Initial state: the script is started for the first time *)

InitFileSystems ==
    {[d |-> {}, f |-> <<>>], [d |-> {ParentDir}, f |-> <<>>]} \cup
    {[d |-> AllDirs, f |-> [p \in P |-> StalePng]] : P \in SUBSET Paths}

Init ==
    /\ pc = 8
    /\ exitStatus = <<>>
    /\ PIL \in BOOLEAN
    /\ \E fs \in InitFileSystems :
          /\ dirs = fs.d /\ files = fs.f
          /\ dirs0 = fs.d /\ files0 = fs.f
    /\ stdout = <<>>
    /\ ret = 0 /\ size = 0 /\ filepath = <<>> /\ img = <<>>
    /\ nextId = 1
    /\ log = <<>>
    /\ run = 1
    /\ snapshot = <<>>

----------------------------------------------------------------------------
(* Lines 7-12: the import and its fallback *)

\* Line 8: from PIL import Image, ImageDraw
Import ==
    /\ Running /\ pc = 8
    /\ Logged(Event("import", <<>>, 0, 0, PIL))
    /\ pc' = IF PIL THEN 44 ELSE 10
    /\ UNCHANGED <<exitStatus, PIL, dirs, files, stdout, nextId, Locals, History>>

\* Line 10: print("PIL (Pillow) not found. Installing...")
PrintInstalling ==
    /\ Running /\ pc = 10
    /\ stdout' = Append(stdout, InstallingLine)
    /\ pc' = 11
    /\ UNCHANGED <<exitStatus, PIL, dirs, files, nextId, log, Locals, History>>

\* Line 11: os.system(... pip install --quiet Pillow).  The status os.system
\* returns is ignored; the install may or may not have made Pillow importable.
Install ==
    /\ Running /\ pc = 11
    /\ \E ok \in BOOLEAN :
          /\ PIL' = ok
          /\ Logged(Event("install", <<>>, 0, 0, ok))
    /\ pc' = 12
    /\ UNCHANGED <<exitStatus, dirs, files, stdout, nextId, Locals, History>>

\* A fallback that loops back to the installer while the import fails.
ReimportRetrying ==
    /\ Running /\ pc = 12
    /\ Logged(Event("import", <<>>, 0, 0, PIL))
    /\ pc' = IF PIL THEN 44 ELSE 11
    /\ UNCHANGED <<exitStatus, PIL, dirs, files, stdout, nextId, Locals, History>>

\* Line 12: the second import, outside any try: an ImportError is unhandled.
Reimport ==
    /\ Running /\ pc = 12
    /\ Logged(Event("import", <<>>, 0, 0, PIL))
    /\ IF PIL THEN pc' = 44 /\ UNCHANGED exitStatus
              ELSE Raise
    /\ UNCHANGED <<PIL, dirs, files, stdout, nextId, Locals, History>>

----------------------------------------------------------------------------
(* Lines 30-41: main *)

\* Lines 43-44 and 31: main() is called and computes icons_dir.
CallMain ==
    /\ Running /\ pc = 44
    /\ pc' = 32
    /\ UNCHANGED <<exitStatus, PIL, dirs, files, stdout, nextId, log, Locals, History>>

\* Line 32: os.makedirs(icons_dir, exist_ok=True)
Makedirs ==
    /\ Running /\ pc = 32
    /\ \E o \in os_makedirs(dirs, ExistOk) :
          /\ dirs' = o.dirs
          /\ Logged(Event("makedirs", icons_dir, 0, 0, o.ok))
          /\ IF o.ok THEN pc' = NextInMain(pc) /\ UNCHANGED exitStatus
                     ELSE Raise
    /\ UNCHANGED <<PIL, files, stdout, nextId, Locals, History>>

\* Lines 35-38: create_icon(size, os.path.join(icons_dir, name))
CallCreateIcon ==
    /\ Running /\ pc \in CallLines
    /\ size' = CallSites[pc].size
    /\ filepath' = PathAt(pc)
    /\ img' = <<>>
    /\ ret' = NextInMain(pc)
    /\ pc' = 17
    /\ Logged(Event("create_icon", PathAt(pc), 0, CallSites[pc].size, TRUE))
    /\ UNCHANGED <<exitStatus, PIL, dirs, files, stdout, nextId, History>>

\* Line 40: print("Icon generation complete!")
PrintComplete ==
    /\ Running /\ pc = 40
    /\ stdout' = Append(stdout, CompleteLine)
    /\ pc' = NextInMain(pc)
    /\ UNCHANGED <<exitStatus, PIL, dirs, files, nextId, log, Locals, History>>

\* Line 41: the advisory; main returns to line 44 and the script ends.
PrintAdvisory ==
    /\ Running /\ pc = 41
    /\ stdout' = Append(stdout, AdvisoryLine)
    /\ pc' = 44
    /\ exitStatus' = <<0>>
    /\ UNCHANGED <<PIL, dirs, files, nextId, log, Locals, History>>

----------------------------------------------------------------------------
(* Lines 14-28: create_icon *)

\* A version that keeps one buffer per size and reuses it.
NewBufferCached ==
    /\ Running /\ pc = 17
    /\ LET made == {i \in DOMAIN log : log[i].op = "new" /\ log[i].size = size}
       IN  IF made = {}
           THEN /\ img' = [id |-> nextId, raster |-> NewImage(size)]
                /\ nextId' = nextId + 1
                /\ Logged(Event("new", <<>>, nextId, size, TRUE))
           ELSE /\ img' = [id |-> log[CHOOSE i \in made : TRUE].buf,
                           raster |-> NewImage(size)]
                /\ UNCHANGED <<nextId, log>>
    /\ pc' = NextInCreateIcon(pc)
    /\ UNCHANGED <<exitStatus, PIL, dirs, files, stdout, ret, size, filepath, History>>

\* Line 17: img = Image.new('RGBA', (size, size), (9, 9, 11, 255))
NewBuffer ==
    /\ Running /\ pc = 17
    /\ img' = [id |-> nextId, raster |-> NewImage(size)]
    /\ nextId' = nextId + 1
    /\ Logged(Event("new", <<>>, nextId, size, TRUE))
    /\ pc' = NextInCreateIcon(pc)
    /\ UNCHANGED <<exitStatus, PIL, dirs, files, stdout, ret, size, filepath, History>>

\* Lines 18-25: draw = ImageDraw.Draw(img); margin; draw.ellipse(...)
Ellipse ==
    /\ Running /\ pc = 22
    /\ img' = [img EXCEPT !.raster = DrawEllipse(@, size)]
    /\ pc' = NextInCreateIcon(pc)
    /\ UNCHANGED <<exitStatus, PIL, dirs, files, stdout, nextId, log,
                   ret, size, filepath, History>>

\* The write succeeded: filepath holds the encoded buffer, whatever it held.
SaveOk ==
    /\ icons_dir \in dirs
    /\ files' = WriteFile(files, filepath, PngEncode(img.raster))
    /\ Logged(Event("save", filepath, img.id, size, TRUE))
    /\ pc' = NextInCreateIcon(pc)
    /\ UNCHANGED exitStatus

\* The write failed: OSError propagates out of create_icon and main.
SaveFails ==
    /\ \E f \in FailedSaveOutcomes(files, filepath) : files' = f
    /\ Logged(Event("save", filepath, img.id, size, FALSE))
    /\ Raise

\* A version that catches the error of a failed write and carries on.
SaveSwallowing ==
    /\ Running /\ pc = 27
    /\ \/ SaveOk
       \/ /\ \E f \in FailedSaveOutcomes(files, filepath) : files' = f
          /\ Logged(Event("save", filepath, img.id, size, FALSE))
          /\ pc' = NextInCreateIcon(pc)
          /\ UNCHANGED exitStatus
    /\ UNCHANGED <<PIL, dirs, stdout, nextId, Locals, History>>

\* Line 27: img.save(filepath, 'PNG')
Save ==
    /\ Running /\ pc = 27
    /\ (SaveOk \/ SaveFails)
    /\ UNCHANGED <<PIL, dirs, stdout, nextId, Locals, History>>

\* Line 28: print(f"Created {filepath}"), then return to main.
PrintCreated ==
    /\ Running /\ pc = 28
    /\ stdout' = Append(stdout, CreatedLine(filepath))
    /\ pc' = ret
    /\ UNCHANGED <<exitStatus, PIL, dirs, files, nextId, log, Locals, History>>

----------------------------------------------------------------------------
(* The script is started again, on what the previous run left *)

Rerun ==
    /\ ~Running /\ run < MaxRuns
    /\ run' = run + 1
    /\ snapshot' = IF exitStatus = <<0>> THEN <<files>> ELSE snapshot
    /\ dirs0' = dirs /\ files0' = files
    /\ pc' = 8 /\ exitStatus' = <<>>
    /\ stdout' = <<>> /\ log' = <<>>
    /\ ret' = 0 /\ size' = 0 /\ filepath' = <<>> /\ img' = <<>>
    /\ UNCHANGED <<PIL, dirs, files, nextId>>

Next ==
    \/ Import
    \/ PrintInstalling
    \/ Install
    \/ Reimport
    \/ CallMain
    \/ Makedirs
    \/ CallCreateIcon
    \/ NewBuffer
    \/ Ellipse
    \/ Save
    \/ PrintCreated
    \/ PrintComplete
    \/ PrintAdvisory
    \/ Rerun

Spec == Init /\ [][Next]_vars

----------------------------------------------------------------------------
(* Properties *)

Range(s) == {s[i] : i \in DOMAIN s}

\* The positions of the log that record a call of op.
Events(op) == {i \in DOMAIN log : log[i].op = op}

OkSaves == {i \in Events("save") : log[i].ok}

FailedSaves == {i \in Events("save") : ~log[i].ok}

Succeeded == exitStatus = <<0>>

Failed == exitStatus = <<1>>

\* The output layout the specification tabulates: filename and pixel size.
Layout ==
    {<<"32x32.png", 32>>, <<"128x128.png", 128>>,
     <<"128x128@2x.png", 256>>, <<"icon.png", 256>>}

OutPath(name) == <<"..", "src-tauri", "icons", name>>

Accent == <<245, 158, 11, 255>>

Background == <<9, 9, 11, 255>>

\* The picture the specification describes for a size: background everywhere,
\* one filled ellipse in [m, m, s - m, s - m] with m = floor(s / 4).
Picture(s) ==
    [format |-> "PNG", mode |-> "RGBA", size |-> <<s, s>>, color |-> Background,
     shapes |-> <<[xy |-> <<s \div 4, s \div 4, s - s \div 4, s - s \div 4>>,
                   fill |-> Accent, outline |-> <<>>]>>,
     tIME |-> <<>>]

LayoutFiles == [p \in {OutPath(e[1]) : e \in Layout} |->
                  Picture((CHOOSE e \in Layout : OutPath(e[1]) = p)[2])]

\* C1: after a run that ends successfully, each of the four filenames exists
\* in the output directory and holds a square 4-channel raster of its pair's
\* size (32, 128, 256, 256).
C1_FilesHaveTheirSizes ==
    Succeeded =>
        \A e \in Layout :
            /\ OutPath(e[1]) \in DOMAIN files
            /\ files[OutPath(e[1])].format = "PNG"
            /\ PngDecode(files[OutPath(e[1])]).size = <<e[2], e[2]>>
            /\ Bands(PngDecode(files[OutPath(e[1])]).mode) = 4

\* A successful first run into a directory that held a stale icon.png.
C1_Witness ==
    /\ Succeeded
    /\ OutPath("icon.png") \in DOMAIN files0
    /\ files0[OutPath("icon.png")] = StalePng

\* C2: when the first import fails there is exactly one install attempt and
\* then one more import; if that import fails too (the install failed or did
\* not help) the run has ended with status 1 at line 12, nothing was retried,
\* and neither a directory nor a file was created or changed.
C2_ImportFallback ==
    /\ Cardinality(Events("install")) <= 1
    /\ Cardinality(Events("import")) <= 2
    /\ (Len(log) >= 1 /\ ~log[1].ok /\ ~(Running /\ pc \in {8, 10, 11, 12})) =>
          /\ Len(log) >= 3
          /\ log[2].op = "install"
          /\ log[3].op = "import"
    /\ (Len(log) >= 3 /\ ~log[3].ok) =>
          /\ Failed /\ pc = 12
          /\ Len(log) = 3
          /\ dirs = dirs0 /\ files = files0
          /\ Range(stdout) \subseteq {InstallingLine}

\* The install failed and the second import failed.
C2_Witness ==
    /\ Failed /\ pc = 12
    /\ Len(log) = 3 /\ log[2].op = "install" /\ ~log[2].ok

\* C3: once os.makedirs or a file write has failed, the run has ended with
\* status 1 at that statement: the failure is the last call the run made (no
\* later create_icon, no retry), no path was written twice, neither the
\* completion nor the advisory line was printed, exactly the earlier writes
\* were confirmed, and the files of the earlier writes are still in place.
C3_FailureStopsTheRun ==
    \A i \in Events("makedirs") \cup Events("save") :
        ~log[i].ok =>
            /\ Failed
            /\ i = Len(log)
            /\ pc = (IF log[i].op = "makedirs" THEN 32 ELSE 27)
            /\ \A j, k \in Events("save") : log[j].path = log[k].path => j = k
            /\ CompleteLine \notin Range(stdout)
            /\ AdvisoryLine \notin Range(stdout)
            /\ Cardinality({n \in DOMAIN stdout : Len(stdout[n]) = 2})
                   = Cardinality(OkSaves)
            /\ \A j \in OkSaves :
                  /\ log[j].path \in DOMAIN files
                  /\ files[log[j].path] = Picture(log[j].size)

\* The write of the third file failed after two files were written.
C3_Witness ==
    /\ Failed /\ pc = 27
    /\ filepath = OutPath("128x128@2x.png")
    /\ Cardinality(OkSaves) = 2
    /\ OutPath("128x128.png") \in DOMAIN files

\* C4: a run that ends successfully ends with the directory and all its
\* intermediate directories present and with the same four files, whether or
\* not the directory existed when it started; after line 32 the directories
\* exist; and os.makedirs never fails on a directory that was already present.
C4_MissingDirectoryIsCreated ==
    /\ Succeeded => (AllDirs \subseteq dirs /\ files = LayoutFiles)
    /\ (Running /\ pc = 35) => AllDirs \subseteq dirs
    /\ (Failed /\ pc = 32) => icons_dir \notin dirs0

\* A successful run that started without the directory and its parent.
C4_Witness ==
    /\ Succeeded
    /\ dirs0 = {}
    /\ dirs = {<<"..", "src-tauri">>, <<"..", "src-tauri", "icons">>}

\* C5: a run that ends successfully after an earlier successful run leaves
\* every file exactly as that earlier run left it: the four outputs are
\* overwritten with identical images.
C5_SecondRunReproducesFirst ==
    (Succeeded /\ snapshot # <<>>) =>
        /\ files = snapshot[1]
        /\ \A i \in OkSaves : log[i].path \in DOMAIN snapshot[1]

\* The second of two successful runs in succession: it found all four files
\* and wrote each of them again.
C5_Witness ==
    /\ Succeeded /\ run = 2
    /\ snapshot # <<>> /\ files0 = snapshot[1]
    /\ Cardinality(OkSaves) = 4
    /\ \A i \in OkSaves : log[i].path \in DOMAIN files0

\* The console output the specification gives for a successful run.
SuccessOutput ==
    <<CreatedLine(OutPath("32x32.png")), CreatedLine(OutPath("128x128.png")),
      CreatedLine(OutPath("128x128@2x.png")), CreatedLine(OutPath("icon.png")),
      <<"Icon generation complete!">>,
      <<"Note: icon.icns and icon.ico are placeholders. Use proper icon generation for production.">>>>

\* C6 as stated: the console output of every successful run is the four
\* "Created" lines in order, the completion line and the advisory line, and
\* nothing else.
C6_Original == Succeeded => stdout = SuccessOutput

\* C6, amended: the console output of a successful run is those six lines,
\* preceded by the line "PIL (Pillow) not found. Installing..." exactly when
\* the first import failed, and nothing else.
C6_ConsoleOutput ==
    Succeeded =>
        stdout = (IF log[1].ok THEN <<>> ELSE <<InstallingLine>>) \o SuccessOutput

\* A successful run that had to install Pillow first.
C6_Witness ==
    /\ Succeeded
    /\ ~log[1].ok
    /\ Len(stdout) = 7

\* C7: every image written (sizes 32, 128, 256) was drawn with one ellipse in
\* the box [m, m, size - m, size - m], m = floor(size / 4), and its centre
\* pixel (size/2, size/2) has the accent colour (245,158,11,255).
C7_CentreIsAccent ==
    \A i \in OkSaves :
        LET s  == log[i].size
            im == PngDecode(files[log[i].path])
        IN  /\ s \in {32, 128, 256}
            /\ Len(im.shapes) = 1
            /\ im.shapes[1].xy = <<s \div 4, s \div 4, s - s \div 4, s - s \div 4>>
            /\ getpixel(im, s \div 2, s \div 2) = Accent

\* All three sizes have been written.
C7_Witness ==
    /\ Succeeded
    /\ {log[i].size : i \in OkSaves} = {32, 128, 256}

Corners(s) == {<<0, 0>>, <<s - 1, 0>>, <<0, s - 1>>, <<s - 1, s - 1>>}

\* C8: in every image written (sizes 32, 128, 256) the four corner pixels
\* have the background colour (9,9,11,255): no corner lies in the ellipse.
C8_CornersAreBackground ==
    \A i \in OkSaves :
        LET s  == log[i].size
            im == PngDecode(files[log[i].path])
        IN  \A c \in Corners(s) :
                /\ getpixel(im, c[1], c[2]) = Background
                /\ \A n \in DOMAIN im.shapes : ~InEllipse(im.shapes[n].xy, c[1], c[2])

\* The 256-pixel icon.png has been written.
C8_Witness ==
    \E i \in OkSaves : log[i].size = 256 /\ log[i].path = OutPath("icon.png")

\* C9: a successful run made exactly four create_icon calls, allocated four
\* distinct buffers and made four writes to four distinct paths, each write
\* saving the buffer allocated in its own call; the two 256-pixel outputs
\* came from different buffers.
C9_NoDeduplication ==
    Succeeded =>
        /\ Cardinality(Events("create_icon")) = 4
        /\ Cardinality(Events("new")) = 4
        /\ Cardinality({log[i].buf : i \in Events("new")}) = 4
        /\ Cardinality(Events("save")) = 4
        /\ Cardinality({log[i].path : i \in Events("save")}) = 4
        /\ \A i \in Events("save") :
              /\ log[i - 1].op = "new" /\ log[i - 1].buf = log[i].buf
              /\ log[i - 2].op = "create_icon" /\ log[i - 2].path = log[i].path
        /\ \A i, j \in Events("save") :
              (log[i].size = 256 /\ log[j].size = 256 /\ i # j)
                  => log[i].buf # log[j].buf

\* A successful run wrote two 256-pixel files.
C9_Witness ==
    /\ Succeeded
    /\ Cardinality({i \in OkSaves : log[i].size = 256}) = 2

\* C10: in every state, a "Created <path>" line on the console means the
\* file at <path> was written successfully earlier in this run, the
\* completion line means all four files were, and a path whose write failed
\* has no confirmation line.
C10_ConfirmationFollowsWrite ==
    /\ \A n \in DOMAIN stdout :
          Len(stdout[n]) = 2 =>
              \E i \in OkSaves : stdout[n] = <<"Created", log[i].path>>
    /\ (<<"Icon generation complete!">> \in Range(stdout)) =>
          \A e \in Layout : \E i \in OkSaves : log[i].path = OutPath(e[1])
    /\ \A i \in FailedSaves :
          \A n \in DOMAIN stdout :
              Len(stdout[n]) = 2 => stdout[n][2] # log[i].path

\* A write failed after an earlier write was confirmed.
C10_Witness ==
    /\ FailedSaves # {}
    /\ Len(stdout) >= 1
    /\ Len(stdout[Len(stdout)]) = 2

=============================================================================
